---- MODULE Spec2Model ----
(***************************************************************************)
(* Node refresh operator: the reconciliation loop, the campaign state      *)
(* machine, the batch scheduler and the per-node refresh protocol of       *)
(* src/operator/controller.py, over the cluster capabilities of            *)
(* node_manager.py, pod_manager.py and health_checker.py.                  *)
(*                                                                         *)
(* The cluster (nodes, pods, the disruption budget, the clock) is the      *)
(* environment.  Every call of the Kubernetes API can fail with an         *)
(* ApiException; the outcome of each call is chosen by the environment.    *)
(***************************************************************************)
EXTENDS Integers, Sequences, FiniteSets, TLC

----------------------------------------------------------------------------
(* Bounds of the model *)

NumNodes == 3
MaxPodsPerNode == 2
MaxDays == 1
MaxPolls == 5

(* Program constants *)

RetryHours == 1
HoursPerDay == 24
PollSeconds == 5

Nil == -1

Nodes == 1 .. NumNodes
Campaigns == {"a", "b"}

\* The clock is read in hours; it is observed at the start of a day and one
\* hour (the retry cooldown) later, for MaxDays days.
Times == { d * HoursPerDay + h : d \in 0 .. MaxDays, h \in {0, RetryHours} }

Min(x, y) == IF x <= y THEN x ELSE y

Range(s) == { s[i] : i \in DOMAIN s }

\* Saturation value of the per-campaign counter of Running passes.
PassCap == NumNodes + 1

VARIABLES
    now,            \* datetime.utcnow(), in hours
    cspec,          \* [Campaigns -> spec of the NodeRefresh resource] (user-authored)
    status,         \* [Campaigns -> persisted status of the NodeRefresh resource]
    items,          \* the NodeRefresh resources the API lists, in listing order
    targets,        \* the nodes that carry the selector's labels now
    unschedulable,  \* [Nodes -> node.spec.unschedulable]
    podsOn,         \* [Nodes -> the pods bound to the node, in listing order]
    pdb,            \* the pod disruption budget of the namespace
    listed,         \* reconcile_all: what the list call of the current pass returned
    pending,        \* reconcile_all: the listed resources not yet reconciled in this pass
    visited,        \* the resources whose reconcile was called in the current pass
    runPasses,      \* [Campaigns -> Running passes since the campaign entered Running]
    wait            \* wait_for_pod_ready: its timeout, the seconds slept, the last
                    \* observation of the pod, and its result

vars == << now, cspec, status, items, targets, unschedulable, podsOn, pdb,
           listed, pending, visited, runPasses, wait >>

----------------------------------------------------------------------------
(* The cluster as a value: what the capability calls read and change.      *)
(*   unsched : [Nodes -> BOOLEAN]     node.spec.unschedulable              *)
(*   pods    : [Nodes -> Seq(pod)]    the pods bound to each node          *)
(*   healthy : Int                    pdb.status.current_healthy           *)

Pod(n, i, app) == [name |-> 10 * n + i, app |-> app]

Cluster == [unsched |-> unschedulable, pods |-> podsOn, healthy |-> pdb.currentHealthy]

\* What one _refresh_node call returns to its caller: a bool, or an exception
\* (raised), with the cluster it leaves and the capability calls it made.
Returned(ok, cl, calls) == [ok |-> ok, raised |-> FALSE, cl |-> cl, calls |-> calls]

Raised(cl, calls) == [ok |-> FALSE, raised |-> TRUE, cl |-> cl, calls |-> calls]

----------------------------------------------------------------------------
(* node_manager.py *)

\* find_nodes_by_selector: the matching node names in the API's order, or []
\* when the list call raises ApiException.
FindNodesBySelector(apiOk) ==
    IF apiOk THEN SelectSeq([i \in 1 .. NumNodes |-> i], LAMBDA n : n \in targets)
    ELSE << >>

\* A readiness gate that does not look at spec.unschedulable.
IsNodeReadyIgnoringCordon(cl, n, readyCond) == readyCond

\* is_node_ready_for_refresh: readyCond is what read_node reports (the Ready
\* condition is True and the call did not raise).
IsNodeReadyForRefresh(cl, n, readyCond) ==
    readyCond /\ ~cl.unsched[n]

\* cordon_node: patch_node sets spec.unschedulable, unless the call raises.
CordonNode(cl, n, apiOk) ==
    IF apiOk THEN [cl EXCEPT !.unsched[n] = TRUE] ELSE cl

----------------------------------------------------------------------------
(* pod_manager.py *)

\* A pod listing whose failure is not answered with an empty list.
GetPodsOnNodeAlways(cl, n, apiOk) == cl.pods[n]

\* get_pods_on_node: the node's pods, or [] when the list call raises.
GetPodsOnNode(cl, n, apiOk) ==
    IF apiOk THEN cl.pods[n] ELSE << >>

PodMatchesPdb(pod) == pod.app = pdb.app

\* The test made for one pod against the budget: FALSE is a violation.
PdbAllowsPod(cl, pod) ==
    IF ~PodMatchesPdb(pod) THEN TRUE
    ELSE /\ ~(pdb.minAvailable # Nil /\ cl.healthy - 1 < pdb.minAvailable)
         /\ ~(/\ pdb.maxUnavailable # Nil
              /\ (pdb.desiredHealthy - cl.healthy) + 1 > pdb.maxUnavailable)

\* A precheck that asks the API for the budgets and looks at none.
CheckPdbNoBudget(cl, pods, apiOk) == apiOk

\* check_pdb_compliance: every pod is tested on its own against the budget's
\* status as read; an ApiException gives False.
CheckPdbCompliance(cl, pods, apiOk) ==
    apiOk /\ \A i \in DOMAIN pods : PdbAllowsPod(cl, pods[i])

RemovePod(seq, pod) == SelectSeq(seq, LAMBDA q : q # pod)

\* evict_pod: an accepted eviction removes the pod from its node; a pod the
\* budget counts as healthy stops counting.  A rejected one (ApiException)
\* changes nothing.
EvictPod(cl, n, pod, accepted) ==
    IF accepted
    THEN [cl EXCEPT !.pods[n] = RemovePod(@, pod),
                    !.healthy = IF PodMatchesPdb(pod) THEN @ - 1 ELSE @]
    ELSE cl

----------------------------------------------------------------------------
(* health_checker.py *)

\* wait_for_pod_ready: True when the rescheduled pod is seen Running and
\* Ready (it then counts as healthy again), False when it is seen Failed, on
\* another API error or at the timeout.
WaitForPodReady(cl, pod, ready) ==
    IF ready /\ PodMatchesPdb(pod) THEN [cl EXCEPT !.healthy = @ + 1] ELSE cl

\* What one read_namespaced_pod of the polling loop can show: the pod Running
\* with a Ready condition that is ready or not, Running with no condition of
\* type Ready, Pending, Failed, or an ApiException with status 404 or another.
PodObservations ==
    {"runningReady", "runningNotReady", "runningNoCondition", "pending",
     "failed", "notFound", "apiError"}

\* What one turn of the loop does with the observation: return True, return
\* False, or sleep and poll again.  all(...) over no Ready condition is True.
PollResult(o) ==
    CASE o \in {"runningReady", "runningNoCondition"} -> "True"
      [] o \in {"failed", "apiError"} -> "False"
      [] OTHER -> "polling"

\* No wait_for_pod_ready call is under way.
WaitIdle == [timeout |-> 0, elapsed |-> 0, last |-> "none", result |-> "idle"]

\* The call is entered with the readiness timeout t.
WaitEntered(t) == [timeout |-> t, elapsed |-> 0, last |-> "none", result |-> "polling"]

\* One turn of the while loop: the time is within the timeout, the pod is
\* read, and the loop returns or sleeps PollSeconds.
WaitPoll ==
    /\ wait.result = "polling"
    /\ wait.elapsed < wait.timeout
    /\ \E o \in PodObservations :
         wait' = [wait EXCEPT !.last = o, !.result = PollResult(o),
                              !.elapsed = IF PollResult(o) = "polling"
                                          THEN @ + PollSeconds ELSE @]
    /\ UNCHANGED << now, cspec, status, items, targets, unschedulable, podsOn,
                    pdb, listed, pending, visited, runPasses >>

\* The while condition fails: the timeout has elapsed and the call returns
\* False.
WaitTimeout ==
    /\ wait.result = "polling"
    /\ wait.elapsed >= wait.timeout
    /\ wait' = [wait EXCEPT !.result = "False"]
    /\ UNCHANGED << now, cspec, status, items, targets, unschedulable, podsOn,
                    pdb, listed, pending, visited, runPasses >>

----------------------------------------------------------------------------
(* controller.py: the per-node refresh protocol *)

\* What the environment can answer to one pod migration.
PodOutcomes == {"ready", "notReady", "evictFailed"}

\* _migrate_pod: cordon the source (its result is not looked at), evict, wait.
\* Gives << migrated, cluster, calls >>.
MigratePod(cl, n, pod, patchOk, o) ==
    LET c1 == CordonNode(cl, n, patchOk)
        k1 == << <<"cordon", n>>, <<"evict", pod.name>> >>
    IN  IF o = "evictFailed"
        THEN << FALSE, EvictPod(c1, n, pod, FALSE), k1 >>
        ELSE << o = "ready",
                WaitForPodReady(EvictPod(c1, n, pod, TRUE), pod, o = "ready"),
                k1 \o << <<"wait", pod.name>> >> >>

\* A drain that cordons the node and does not wait for its pods to leave.
SafelyDrainNodeNoWait(cl, n, patchOk, evacuated) ==
    << patchOk, CordonNode(cl, n, patchOk) >>

\* safely_drain_node: cordon (False when that fails), then poll until no pod
\* is bound to the node or the timeout passes.  The code evicts nothing here:
\* pods still bound leave only if something else removes them (evacuated).
SafelyDrainNode(cl, n, patchOk, evacuated) ==
    LET c1 == CordonNode(cl, n, patchOk)
    IN  IF ~patchOk THEN << FALSE, c1 >>
        ELSE IF c1.pods[n] = << >> THEN << TRUE, c1 >>
        ELSE IF evacuated THEN << TRUE, [c1 EXCEPT !.pods[n] = << >>] >>
        ELSE << FALSE, c1 >>
\* What _refresh_node sees of the safely_drain_node call: the call and its
\* result.
DrainLog(d, n) ==
    << <<"drain", n>>, << IF d[1] THEN "drained" ELSE "drainFailed", n >> >>

\* A migration loop that goes through the whole inventory.
MigrationCountAll(pods, sp) == Len(pods)

\* The length of the slice pods_on_node[:max_pods_to_move].
MigrationCount(pods, sp) == Min(Len(pods), sp.maxPodsToMove)

\* What _refresh_node sees of one _migrate_pod call: its calls and its result.
MigrationLog(m, pod) ==
    m[3] \o << << IF m[1] THEN "migrated" ELSE "migrationFailed", pod.name >> >>

\* A migration loop that counts the failures and never gives up on the node.
RECURSIVE MigrateAndDrainNoAbort(_, _, _, _, _, _, _, _, _)
MigrateAndDrainNoAbort(cl, n, sp, pods, i, succ, fail, patchOk, calls) ==
    IF i <= MigrationCount(pods, sp)
    THEN UNION {
           LET m == MigratePod(cl, n, pods[i], patchOk, o)
           IN  IF m[1]
               THEN MigrateAndDrainNoAbort(m[2], n, sp, pods, i + 1, succ + 1, fail,
                                           patchOk, calls \o MigrationLog(m, pods[i]))
               ELSE MigrateAndDrainNoAbort(m[2], n, sp, pods, i + 1, succ, fail + 1,
                                           patchOk, calls \o MigrationLog(m, pods[i]))
           : o \in PodOutcomes }
    ELSE IF succ >= sp.minHealthyPods
    THEN { LET d == SafelyDrainNode(cl, n, patchOk, evacuated)
           IN  Returned(d[1], d[2], calls \o DrainLog(d, n))
           : evacuated \in BOOLEAN }
    ELSE { Returned(FALSE, cl, calls) }

\* A migration loop that drains the node however few pods were migrated.
RECURSIVE MigrateAndDrainAnyCount(_, _, _, _, _, _, _, _, _)
MigrateAndDrainAnyCount(cl, n, sp, pods, i, succ, fail, patchOk, calls) ==
    IF i <= MigrationCount(pods, sp)
    THEN UNION {
           LET m == MigratePod(cl, n, pods[i], patchOk, o)
           IN  IF m[1]
               THEN MigrateAndDrainAnyCount(m[2], n, sp, pods, i + 1, succ + 1, fail,
                                    patchOk, calls \o MigrationLog(m, pods[i]))
               ELSE IF fail + 1 > Len(pods) - sp.minHealthyPods
               THEN { Returned(FALSE, m[2],
                               calls \o MigrationLog(m, pods[i])
                                     \o << <<"rollback", n>> >>) }
               ELSE MigrateAndDrainAnyCount(m[2], n, sp, pods, i + 1, succ, fail + 1,
                                    patchOk, calls \o MigrationLog(m, pods[i]))
           : o \in PodOutcomes }
    ELSE { LET d == SafelyDrainNode(cl, n, patchOk, evacuated)
           IN  Returned(d[1], d[2], calls \o DrainLog(d, n))
           : evacuated \in BOOLEAN }

\* The migration loop of _refresh_node from pod i on (Step 5), then the drain
\* (Step 6).  pods is the inventory taken at the start of the call; succ and
\* fail are successful_migrations and failed_migrations.
RECURSIVE MigrateAndDrain(_, _, _, _, _, _, _, _, _)
MigrateAndDrain(cl, n, sp, pods, i, succ, fail, patchOk, calls) ==
    IF i <= MigrationCount(pods, sp)
    THEN UNION {
           LET m == MigratePod(cl, n, pods[i], patchOk, o)
           IN  IF m[1]
               THEN MigrateAndDrain(m[2], n, sp, pods, i + 1, succ + 1, fail,
                                    patchOk, calls \o MigrationLog(m, pods[i]))
               ELSE IF fail + 1 > Len(pods) - sp.minHealthyPods
               THEN { Returned(FALSE, m[2],
                               calls \o MigrationLog(m, pods[i])
                                     \o << <<"rollback", n>> >>) }
               ELSE MigrateAndDrain(m[2], n, sp, pods, i + 1, succ, fail + 1,
                                    patchOk, calls \o MigrationLog(m, pods[i]))
           : o \in PodOutcomes }
    ELSE IF succ >= sp.minHealthyPods
    THEN { LET d == SafelyDrainNode(cl, n, patchOk, evacuated)
           IN  Returned(d[1], d[2], calls \o DrainLog(d, n))
           : evacuated \in BOOLEAN }
    ELSE { Returned(FALSE, cl, calls) }

\* _refresh_node: every result the call can give from cluster cl, over the
\* answers of the environment.  The four spec lookups come before the try
\* block: a spec without podManagement raises KeyError to the caller.
RefreshNode(cl, n, sp) ==
    IF ~sp.hasPodManagement THEN { Raised(cl, << >>) }
    ELSE UNION {
      IF ~IsNodeReadyForRefresh(cl, n, readyCond)
      THEN { Returned(FALSE, cl, << <<"readyFailed", n>> >>) }
      ELSE UNION {
        LET pods == GetPodsOnNode(cl, n, listOk)
            k2 == << <<"ready", n>>, <<"list", n>> >>
        IN  IF pods = << >> THEN { Returned(TRUE, cl, k2) }
            ELSE UNION {
              IF ~CheckPdbCompliance(cl, pods, pdbOk)
              THEN { Returned(FALSE, cl, k2 \o << <<"pdbFailed", n>> >>) }
              ELSE UNION {
                LET k3 == k2 \o << <<"pdb", n>> >>
                IN  IF ~provisioned
                    THEN { Returned(FALSE, cl, k3 \o << <<"provisionFailed", n>> >>) }
                    ELSE UNION { MigrateAndDrain(cl, n, sp, pods, 1, 0, 0, patchOk,
                                                 k3 \o << <<"provision", n>> >>)
                                 : patchOk \in BOOLEAN }
                : provisioned \in BOOLEAN }
              : pdbOk \in BOOLEAN }
        : listOk \in BOOLEAN }
      : readyCond \in BOOLEAN }
----------------------------------------------------------------------------
(* controller.py: the campaign state machine *)

FailedNames(failed) == { failed[i].nodeName : i \in DOMAIN failed }

\* A batch loop that forgets to take the node out of current_nodes.
RemoveNodeKeeps(seq, n) == seq

\* list.remove(x): drops the first occurrence of x.
RemoveNode(seq, n) ==
    LET first == CHOOSE i \in DOMAIN seq :
                     seq[i] = n /\ \A j \in 1 .. i - 1 : seq[j] # n
    IN  SubSeq(seq, 1, first - 1) \o SubSeq(seq, first + 1, Len(seq))

FailedEntry(n) == [nodeName |-> n, reason |-> "Node refresh failed", timestamp |-> now]

\* A batch loop that stops at the first node whose refresh fails and leaves
\* the nodes after it in current_nodes.
RECURSIVE RefreshBatchStopsAtFailure(_, _, _, _, _, _, _, _)
RefreshBatchStopsAtFailure(cl, sp, batch, i, cur, proc, failed, calls) ==
    IF i > Len(batch)
    THEN { [raised |-> FALSE, cl |-> cl, cur |-> cur, proc |-> proc,
            failed |-> failed, calls |-> calls] }
    ELSE UNION {
           IF r.raised
           THEN { [raised |-> TRUE, cl |-> r.cl, cur |-> cur, proc |-> proc,
                   failed |-> failed, calls |-> calls \o r.calls] }
           ELSE IF r.ok
           THEN RefreshBatchStopsAtFailure(r.cl, sp, batch, i + 1,
                             RemoveNode(cur, batch[i]),
                             Append(proc, batch[i]), failed, calls \o r.calls)
           ELSE { [raised |-> FALSE, cl |-> r.cl, cur |-> RemoveNode(cur, batch[i]),
                   proc |-> proc, failed |-> Append(failed, FailedEntry(batch[i])),
                   calls |-> calls \o r.calls] }
           : r \in RefreshNode(cl, batch[i], sp) }

\* The for loop of _continue_refresh_operation over a copy of current_nodes,
\* from its i-th node on: every result it can give.  An exception of
\* _refresh_node leaves the loop (and the pass) at once.
RECURSIVE RefreshBatch(_, _, _, _, _, _, _, _)
RefreshBatch(cl, sp, batch, i, cur, proc, failed, calls) ==
    IF i > Len(batch)
    THEN { [raised |-> FALSE, cl |-> cl, cur |-> cur, proc |-> proc,
            failed |-> failed, calls |-> calls] }
    ELSE UNION {
           IF r.raised
           THEN { [raised |-> TRUE, cl |-> r.cl, cur |-> cur, proc |-> proc,
                   failed |-> failed, calls |-> calls \o r.calls] }
           ELSE IF r.ok
           THEN RefreshBatch(r.cl, sp, batch, i + 1, RemoveNode(cur, batch[i]),
                             Append(proc, batch[i]), failed, calls \o r.calls)
           ELSE RefreshBatch(r.cl, sp, batch, i + 1, RemoveNode(cur, batch[i]),
                             proc, Append(failed, FailedEntry(batch[i])),
                             calls \o r.calls)
           : r \in RefreshNode(cl, batch[i], sp) }

\* The backlog: the live targets that are neither processed nor failed.
RemainingNodes(all, proc, failed) ==
    SelectSeq(all, LAMBDA n : n \notin Range(proc) /\ n \notin FailedNames(failed))

\* An admission loop that fills the batch whenever it has room.
RECURSIVE AdmitNodesWithRoom(_, _, _)
AdmitNodesWithRoom(cur, remaining, maxConcurrent) ==
    IF Len(cur) < maxConcurrent /\ remaining # << >>
    THEN AdmitNodesWithRoom(Append(cur, Head(remaining)), Tail(remaining),
                            maxConcurrent)
    ELSE << cur, remaining >>

\* The admission loop: while current_nodes and len(current_nodes) <
\* max_concurrent and remaining_nodes.  Gives << current_nodes, remaining_nodes >>.
RECURSIVE AdmitNodes(_, _, _)
AdmitNodes(cur, remaining, maxConcurrent) ==
    IF cur # << >> /\ Len(cur) < maxConcurrent /\ remaining # << >>
    THEN AdmitNodes(Append(cur, Head(remaining)), Tail(remaining), maxConcurrent)
    ELSE << cur, remaining >>

\* A status write that leaves the merged status behind when the API call fails.
UpdateStatusMergesAnyway(st, updates, writeOk) ==
    [f \in DOMAIN st |-> IF f \in DOMAIN updates THEN updates[f] ELSE st[f]]

\* _update_status: read the resource, merge the updates into its status and
\* replace it; an ApiException on either call is logged and nothing is written.
UpdateStatus(st, updates, writeOk) ==
    IF writeOk
    THEN [f \in DOMAIN st |-> IF f \in DOMAIN updates THEN updates[f] ELSE st[f]]
    ELSE st

\* The status of a resource that has none yet: reconcile reads its phase as
\* Pending and its lists as empty.
FreshStatus ==
    [phase |-> "Pending", message |-> "", currentNodes |-> << >>,
     processedNodes |-> << >>, failedNodes |-> << >>,
     startTime |-> Nil, completionTime |-> Nil]

\* datetime values: naive (datetime.utcnow()) or aware of their offset.
\* A timestamp of the status is the text utcnow().isoformat() + 'Z', kept
\* here as its hour; fromisoformat of that text with 'Z' replaced by '+00:00'
\* is an aware datetime.
UtcNow == [hours |-> now, aware |-> FALSE]

FromIsoFormat(ts) == [hours |-> ts, aware |-> TRUE]

PlusHours(dt, h) == [dt EXCEPT !.hours = @ + h]

\* a >= b on datetimes: Python raises TypeError when one is naive and the
\* other aware.
DatetimeGE(a, b) ==
    IF a.aware # b.aware THEN "TypeError"
    ELSE IF a.hours >= b.hours THEN "True" ELSE "False"

\* _should_restart_cycle: "True", "False", or the TypeError that leaves it
\* (its except clause catches ValueError only).
ShouldRestartCycle(sp, st) ==
    IF ~sp.scheduleEnabled THEN "False"
    ELSE IF st.completionTime = Nil THEN "True"
    ELSE DatetimeGE(UtcNow,
                    PlusHours(FromIsoFormat(st.completionTime),
                              sp.intervalDays * HoursPerDay))

\* A retry test that compares the two instants as if both were naive.
ShouldRetryNaive(st) ==
    IF st.completionTime = Nil THEN "True"
    ELSE IF now >= st.completionTime + RetryHours THEN "True" ELSE "False"

\* _should_retry: "True", "False", or the TypeError that leaves it.
ShouldRetry(st) ==
    IF st.completionTime = Nil THEN "True"
    ELSE DatetimeGE(UtcNow, PlusHours(FromIsoFormat(st.completionTime), RetryHours))

\* The status updates of the Completed branch of reconcile.
RestartUpdates ==
    [phase |-> "Pending", message |-> "Starting new refresh cycle",
     startTime |-> now, completionTime |-> Nil,
     processedNodes |-> << >>, failedNodes |-> << >>]

\* The status updates of the Failed branch of reconcile.
RetryUpdates ==
    [phase |-> "Pending", message |-> "Retrying failed operation"]

\* A start that seeds the batch with every target node.
StartUpdatesAll(sp, found) ==
    IF found = << >>
    THEN [phase |-> "Failed", message |-> "No nodes found matching selector",
          completionTime |-> now]
    ELSE [phase |-> "Running", currentNodes |-> found,
          processedNodes |-> << >>, failedNodes |-> << >>,
          startTime |-> now, message |-> "Starting refresh"]

\* A start that fails an empty selector result without a completionTime.
StartUpdatesNoTime(sp, found) ==
    IF found = << >>
    THEN [phase |-> "Failed", message |-> "No nodes found matching selector"]
    ELSE [phase |-> "Running",
          currentNodes |-> SubSeq(found, 1, Min(sp.maxConcurrentNodes, Len(found))),
          processedNodes |-> << >>, failedNodes |-> << >>,
          startTime |-> now, message |-> "Starting refresh"]

\* _start_refresh_operation: the status updates for the selector result found.
StartUpdates(sp, found) ==
    IF found = << >>
    THEN [phase |-> "Failed", message |-> "No nodes found matching selector",
          completionTime |-> now]
    ELSE [phase |-> "Running",
          currentNodes |-> SubSeq(found, 1, Min(sp.maxConcurrentNodes, Len(found))),
          processedNodes |-> << >>, failedNodes |-> << >>,
          startTime |-> now, message |-> "Starting refresh"]

\* A pass that fails the campaign when it ends with a failed node.
ContinueUpdatesFailing(sp, b, found) ==
    LET remaining == RemainingNodes(found, b.proc, b.failed)
        admitted == AdmitNodes(b.cur, remaining, sp.maxConcurrentNodes)
    IN  IF admitted[1] = << >> /\ admitted[2] = << >>
        THEN [currentNodes |-> admitted[1], processedNodes |-> b.proc,
              failedNodes |-> b.failed,
              phase |-> IF b.failed = << >> THEN "Completed" ELSE "Failed",
              completionTime |-> now, message |-> "Refresh completed"]
        ELSE [currentNodes |-> admitted[1], processedNodes |-> b.proc,
              failedNodes |-> b.failed, message |-> "Processing"]

\* _continue_refresh_operation after the batch loop b: refill the batch from
\* the backlog, decide completion, and give the status updates.
ContinueUpdates(sp, b, found) ==
    LET remaining == RemainingNodes(found, b.proc, b.failed)
        admitted == AdmitNodes(b.cur, remaining, sp.maxConcurrentNodes)
    IN  IF admitted[1] = << >> /\ admitted[2] = << >>
        THEN [currentNodes |-> admitted[1], processedNodes |-> b.proc,
              failedNodes |-> b.failed, phase |-> "Completed",
              completionTime |-> now, message |-> "Refresh completed"]
        ELSE [currentNodes |-> admitted[1], processedNodes |-> b.proc,
              failedNodes |-> b.failed, message |-> "Processing"]
----------------------------------------------------------------------------
(* The actions *)

\* The end of one reconcile call on campaign c: the status it leaves, the
\* cluster it leaves, and the place of reconcile_all in its listing.  An
\* exception leaves the for loop of reconcile_all (and reconcile_all itself,
\* which catches ApiException only).
EndReconcile(c, newStatus, cl, raised) ==
    /\ status' = [status EXCEPT ![c] = newStatus]
    /\ unschedulable' = cl.unsched
    /\ podsOn' = cl.pods
    /\ pdb' = [pdb EXCEPT !.currentHealthy = cl.healthy]
    /\ pending' = IF raised THEN << >> ELSE Tail(pending)
    /\ visited' = visited \cup {c}
    /\ UNCHANGED << now, cspec, items, targets, listed, wait >>

\* A Completed branch that restarts the campaign whatever its schedule says.
ReconcileCompletedAlways(c, writeOk) ==
    EndReconcile(c, UpdateStatus(status[c], RestartUpdates, writeOk), Cluster, FALSE)

\* reconcile of a Completed campaign.  An exception of _should_restart_cycle
\* is not caught in reconcile.
ReconcileCompleted(c, writeOk) ==
    LET due == ShouldRestartCycle(cspec[c], status[c])
    IN  EndReconcile(c,
            IF due = "True" THEN UpdateStatus(status[c], RestartUpdates, writeOk)
            ELSE status[c],
            Cluster, due = "TypeError")

\* reconcile of a Failed campaign.  An exception of _should_retry is not
\* caught in reconcile.
ReconcileFailed(c, writeOk) ==
    LET due == ShouldRetry(status[c])
    IN  EndReconcile(c,
            IF due = "True" THEN UpdateStatus(status[c], RetryUpdates, writeOk)
            ELSE status[c],
            Cluster, due = "TypeError")

\* reconcile of a Pending campaign: _start_refresh_operation
StartRefreshOperation(c, writeOk, findOk) ==
    EndReconcile(c,
        UpdateStatus(status[c],
                     StartUpdates(cspec[c], FindNodesBySelector(findOk)), writeOk),
        Cluster, FALSE)

\* A Running branch that writes the status after each node of the batch, and
\* can end after any of these writes.
ContinueRefreshOperationWritesEachNode(c, writeOk, findOk) ==
    LET st == status[c]
    IN  \E p \in 0 .. Len(st.currentNodes) :
          \E b \in RefreshBatch(Cluster, cspec[c], SubSeq(st.currentNodes, 1, p), 1,
                                st.currentNodes, st.processedNodes,
                                st.failedNodes, << >>) :
            IF b.raised
            THEN EndReconcile(c, st, b.cl, TRUE)
            ELSE EndReconcile(c,
                     UpdateStatus(st,
                         ContinueUpdates(cspec[c], b, FindNodesBySelector(findOk)),
                         writeOk),
                     b.cl, FALSE)

\* reconcile of a Running campaign: _continue_refresh_operation
ContinueRefreshOperation(c, writeOk, findOk) ==
    LET st == status[c]
    IN  \E b \in RefreshBatch(Cluster, cspec[c], st.currentNodes, 1,
                              st.currentNodes, st.processedNodes,
                              st.failedNodes, << >>) :
          IF b.raised
          THEN EndReconcile(c, st, b.cl, TRUE)
          ELSE EndReconcile(c,
                   UpdateStatus(st,
                       ContinueUpdates(cspec[c], b, FindNodesBySelector(findOk)),
                       writeOk),
                   b.cl, FALSE)

\* reconcile: the branch is chosen by the phase of the listed resource.
Reconcile(c, writeOk, findOk) ==
    CASE status[c].phase = "Completed" -> ReconcileCompleted(c, writeOk)
      [] status[c].phase = "Failed" -> ReconcileFailed(c, writeOk)
      [] status[c].phase = "Pending" -> StartRefreshOperation(c, writeOk, findOk)
      [] status[c].phase = "Running" -> ContinueRefreshOperation(c, writeOk, findOk)

\* reconcile_all, its list call: the start of a pass of Operator.run.  An
\* ApiException of the list call ends the pass with nothing reconciled.
\* listOks: the answers the API can give to the call.
ListWith(listOks) ==
    /\ pending = << >>
    /\ \E listOk \in listOks :
         /\ listed' = IF listOk THEN items ELSE << >>
         /\ pending' = IF listOk THEN items ELSE << >>
    /\ visited' = {}
    /\ UNCHANGED << now, cspec, status, items, targets, unschedulable, podsOn,
                    pdb, runPasses, wait >>

\* reconcile_all, one turn of its for loop: reconcile the next listed resource.
\* apiOks: the answers the API can give to the status write and to the node list.
ReconcileWith(apiOks) ==
    /\ pending # << >>
    /\ \E writeOk \in apiOks, findOk \in apiOks :
         Reconcile(Head(pending), writeOk, findOk)

\* The number of Running passes of a campaign since it entered Running, kept
\* up to PassCap.
CountPass(c) ==
    [runPasses EXCEPT ![c] =
        IF status[c].phase = "Running" THEN Min(@ + 1, PassCap)
        ELSE IF status'[c].phase = "Running" THEN 0
        ELSE @]

ListCampaigns == ListWith(BOOLEAN)

ReconcileNext ==
    /\ ReconcileWith(BOOLEAN)
    /\ UNCHANGED runPasses

\* Time passes.
Tick ==
    /\ \E t \in Times : t > now /\ now' = t
    /\ UNCHANGED << cspec, status, items, targets, unschedulable, podsOn, pdb,
                    listed, pending, visited, runPasses, wait >>

\* A node gets the labels the selector asks for.
NodeJoin ==
    /\ \E n \in Nodes \ targets : targets' = targets \cup {n}
    /\ UNCHANGED << now, cspec, status, items, unschedulable, podsOn, pdb,
                    listed, pending, visited, runPasses, wait >>

\* A node leaves the cluster or loses the labels.
NodeLeave ==
    /\ \E n \in targets : targets' = targets \ {n}
    /\ UNCHANGED << now, cspec, status, items, unschedulable, podsOn, pdb,
                    listed, pending, visited, runPasses, wait >>

\* The same two steps with an API that answers every call, counting the
\* Running passes of each campaign.
ListReliable == ListWith({TRUE})

ReconcileReliable ==
    /\ ReconcileWith({TRUE})
    /\ runPasses' = CountPass(Head(pending))

\* The clusters the process can leave when it is stopped inside the reconcile
\* of campaign c, before the status write: in the Running branch the node
\* work of any prefix of the batch is done (the whole batch included); the
\* other branches do no node work.
StoppedClusters(c) ==
    IF status[c].phase = "Running"
    THEN LET st == status[c]
         IN  { b.cl : b \in UNION { RefreshBatch(Cluster, cspec[c],
                                        SubSeq(st.currentNodes, 1, p), 1,
                                        st.currentNodes, st.processedNodes,
                                        st.failedNodes, << >>) :
                                    p \in 0 .. Len(st.currentNodes) } }
    ELSE { Cluster }

\* The process stops inside the reconcile of the next listed resource, before
\* the status write.  The listing and the place in it are memory of the
\* process and are lost; the next process starts with reconcile_all.
StopInPass ==
    /\ pending # << >>
    /\ \E cl \in StoppedClusters(Head(pending)) :
         /\ unschedulable' = cl.unsched
         /\ podsOn' = cl.pods
         /\ pdb' = [pdb EXCEPT !.currentHealthy = cl.healthy]
    /\ listed' = << >>
    /\ pending' = << >>
    /\ visited' = {}
    /\ UNCHANGED << now, cspec, status, items, targets, runPasses, wait >>

----------------------------------------------------------------------------
(* The initial states *)

CampaignSpec(m, h, pm, e) ==
    [maxConcurrentNodes |-> m, hasPodManagement |-> h,
     maxPodsToMove |-> pm[1], minHealthyPods |-> pm[2],
     scheduleEnabled |-> e, intervalDays |-> 1]

\* The budget of the namespace: for the pods labelled app=web, either a
\* minAvailable or a maxUnavailable; every pod it counts is healthy at first.
MinAvailableBudget(nWeb) ==
    [app |-> "web", minAvailable |-> IF nWeb > 0 THEN nWeb - 1 ELSE 0,
     maxUnavailable |-> Nil,
     desiredHealthy |-> IF nWeb > 0 THEN nWeb - 1 ELSE 0, currentHealthy |-> nWeb]

MaxUnavailableBudget(nWeb) ==
    [app |-> "web", minAvailable |-> Nil, maxUnavailable |-> 1,
     desiredHealthy |-> nWeb, currentHealthy |-> nWeb]

Budgets(nWeb) == { MinAvailableBudget(nWeb), MaxUnavailableBudget(nWeb) }

\* podManagement as << maxPodsToMove, minHealthyPods >>: the defaults of
\* _refresh_node, and two stricter caps.
DefaultPodManagement == << 3, 2 >>

PodManagements == { DefaultPodManagement, << 2, 1 >>, << 1, 1 >> }

\* Every node runs k pods of the web workload.
PodsPerNode(k) == [n \in Nodes |-> [i \in 1 .. k |-> Pod(n, i, "web")]]

InitCommon ==
    /\ now = 0
    /\ status = [c \in Campaigns |-> FreshStatus]
    /\ unschedulable = [n \in Nodes |-> FALSE]
    /\ listed = << >>
    /\ pending = << >>
    /\ visited = {}
    /\ runPasses = [c \in Campaigns |-> 0]
    /\ wait = WaitIdle

\* One campaign with any spec, over any set of labelled nodes that run no pods.
Init ==
    /\ InitCommon
    /\ items = << "a" >>
    /\ \E m \in 1 .. 2, h \in BOOLEAN, e \in BOOLEAN :
         cspec = [c \in Campaigns |-> CampaignSpec(m, h, DefaultPodManagement, e)]
    /\ targets \in SUBSET Nodes
    /\ podsOn = PodsPerNode(0)
    /\ pdb = MinAvailableBudget(NumNodes * MaxPodsPerNode)

Next ==
    \/ ListCampaigns
    \/ ReconcileNext
    \/ Tick
    \/ NodeJoin
    \/ NodeLeave

Spec == Init /\ [][Next]_vars

\* The cluster's membership is stable: the labelled nodes do not change.
StableNext ==
    \/ ListCampaigns
    \/ ReconcileNext
    \/ Tick

\* One campaign over all nodes, each running k pods of the budgeted workload,
\* for every podManagement and both kinds of budget.
InitPods ==
    /\ InitCommon
    /\ items = << "a" >>
    /\ \E m \in 1 .. 2, pm \in PodManagements :
         cspec = [c \in Campaigns |-> CampaignSpec(m, TRUE, pm, TRUE)]
    /\ targets = Nodes
    /\ \E k \in 0 .. MaxPodsPerNode :
         /\ podsOn = PodsPerNode(k)
         /\ pdb \in Budgets(NumNodes * k)

PodSpec == InitPods /\ [][StableNext]_vars

\* Two campaigns, listed a before b, over nodes that run no pods.
InitFleet ==
    /\ InitCommon
    /\ items = << "a", "b" >>
    /\ cspec \in [Campaigns ->
                    { CampaignSpec(1, h, DefaultPodManagement, FALSE) : h \in BOOLEAN }]
    /\ targets \in SUBSET Nodes
    /\ podsOn = PodsPerNode(0)
    /\ pdb = MinAvailableBudget(NumNodes * MaxPodsPerNode)

FleetSpec == InitFleet /\ [][StableNext]_vars

\* One campaign without a schedule over all nodes, each running k pods of the
\* budgeted workload, at one instant: the campaign runs once.
InitRefresh ==
    /\ InitCommon
    /\ items = << "a" >>
    /\ \E m \in 1 .. 2, pm \in PodManagements :
         cspec = [c \in Campaigns |-> CampaignSpec(m, TRUE, pm, FALSE)]
    /\ targets = Nodes
    /\ \E k \in 0 .. MaxPodsPerNode :
         /\ podsOn = PodsPerNode(k)
         /\ pdb \in Budgets(NumNodes * k)

RefreshNext ==
    \/ ListReliable
    \/ ReconcileNext

RefreshSpec == InitRefresh /\ [][RefreshNext]_vars

\* One campaign without a schedule over all nodes, one node at a time, each
\* node running k pods of the budgeted workload, for every podManagement and
\* for one whose maxPodsToMove is below its minHealthyPods.
InitNode ==
    /\ InitCommon
    /\ items = << "a" >>
    /\ \E pm \in PodManagements \cup { << 1, 2 >> } :
         cspec = [c \in Campaigns |-> CampaignSpec(1, TRUE, pm, FALSE)]
    /\ targets = Nodes
    /\ \E k \in 0 .. MaxPodsPerNode :
         /\ podsOn = PodsPerNode(k)
         /\ pdb = MinAvailableBudget(NumNodes * k)

NodeSpec == InitNode /\ [][RefreshNext]_vars

\* A process that can be stopped inside any pass.
StopNext ==
    \/ ListReliable
    \/ ReconcileNext
    \/ StopInPass

\* One campaign without a schedule that moves one pod per node, over all
\* nodes, each running k pods of the budgeted workload.
InitStop ==
    /\ InitCommon
    /\ items = << "a" >>
    /\ \E m \in 1 .. 2 :
         cspec = [c \in Campaigns |-> CampaignSpec(m, TRUE, << 1, 1 >>, FALSE)]
    /\ targets = Nodes
    /\ \E k \in 0 .. MaxPodsPerNode :
         /\ podsOn = PodsPerNode(k)
         /\ pdb = MinAvailableBudget(NumNodes * k)

StopSpec == InitStop /\ [][StopNext]_vars

\* One campaign, with or without a schedule, over a fixed set of labelled
\* nodes that run no pods, as the hours pass, with an API that answers every
\* call.
InitClock ==
    /\ InitCommon
    /\ items = << "a" >>
    /\ \E m \in 1 .. 2, e \in BOOLEAN :
         cspec = [c \in Campaigns |-> CampaignSpec(m, TRUE, DefaultPodManagement, e)]
    /\ targets \in SUBSET Nodes
    /\ podsOn = PodsPerNode(0)
    /\ pdb = MinAvailableBudget(NumNodes * MaxPodsPerNode)

ClockNext ==
    \/ ListReliable
    \/ ReconcileReliable
    \/ Tick

ClockSpec == InitClock /\ [][ClockNext]_vars

\* One wait_for_pod_ready call, for every readiness timeout that is a
\* multiple of the polling interval, up to MaxPolls polls.
InitWait ==
    /\ now = 0
    /\ status = [c \in Campaigns |-> FreshStatus]
    /\ unschedulable = [n \in Nodes |-> FALSE]
    /\ listed = << >>
    /\ pending = << >>
    /\ visited = {}
    /\ runPasses = [c \in Campaigns |-> 0]
    /\ items = << >>
    /\ cspec = [c \in Campaigns |-> CampaignSpec(1, TRUE, DefaultPodManagement, FALSE)]
    /\ targets = {}
    /\ podsOn = PodsPerNode(0)
    /\ pdb = MinAvailableBudget(0)
    /\ \E k \in 0 .. MaxPolls : wait = WaitEntered(k * PollSeconds)

WaitNext ==
    \/ WaitPoll
    \/ WaitTimeout

WaitSpec == InitWait /\ [][WaitNext]_vars /\ WF_vars(WaitPoll) /\ WF_vars(WaitTimeout)

\* The assumptions of the progress claims: every API call is answered, every
\* node refresh returns, and the labelled nodes are fixed and at least one.
LiveNext ==
    \/ ListReliable
    \/ ReconcileReliable

InitLive ==
    /\ InitCommon
    /\ items = << "a" >>
    /\ \E m \in 1 .. 2, pm \in PodManagements :
         cspec = [c \in Campaigns |-> CampaignSpec(m, TRUE, pm, FALSE)]
    /\ targets \in SUBSET Nodes \ {{}}
    /\ \E k \in 0 .. MaxPodsPerNode :
         /\ podsOn = PodsPerNode(k)
         /\ pdb = MinAvailableBudget(NumNodes * k)

\* Operator.run calls reconcile_all again and again, and reconcile_all goes
\* through its whole listing.
LiveSpec ==
    /\ InitLive
    /\ [][LiveNext]_vars
    /\ WF_vars(ListReliable)
    /\ WF_vars(ReconcileReliable)
----------------------------------------------------------------------------
(* The properties *)

\* A step that is the reconcile call of campaign c.
ReconcileStepOf(c) ==
    pending # << >> /\ Head(pending) = c /\ visited' = visited \cup {c}
    /\ listed' = listed

\* C1: after every reconciliation pass the persisted currentNodes of a
\* campaign is no longer than its maxConcurrentNodes.
C1_BatchWithinBound ==
    \A c \in Campaigns :
        Len(status[c].currentNodes) <= cspec[c].maxConcurrentNodes

\* A campaign just started, at a later hour, whose batch is full while more
\* nodes are labelled than the batch holds.
C1_Witness ==
    \E c \in Campaigns :
        /\ status[c].phase = "Running"
        /\ now > 0 /\ status[c].startTime = now
        /\ Len(status[c].currentNodes) = cspec[c].maxConcurrentNodes
        /\ Cardinality(targets) > cspec[c].maxConcurrentNodes

\* C2: after any pass no node name is in more than one of currentNodes,
\* processedNodes and the nodeName fields of failedNodes.
C2_ListsDisjoint ==
    \A c \in Campaigns :
        LET cur == Range(status[c].currentNodes)
            proc == Range(status[c].processedNodes)
            fail == FailedNames(status[c].failedNodes)
        IN  cur \cap proc = {} /\ cur \cap fail = {} /\ proc \cap fail = {}

\* A campaign started at a later hour whose Running pass has moved one batch
\* node to processedNodes and the other to failedNodes.
C2_Witness ==
    \E c \in Campaigns :
        /\ status[c].startTime > 0
        /\ status[c].processedNodes # << >>
        /\ status[c].failedNodes # << >>

PhaseEdges(allowed) ==
    \A c \in Campaigns :
        \/ status'[c].phase = status[c].phase
        \/ << status[c].phase, status'[c].phase >> \in allowed

\* C6 as stated: the phase changes only along Pending-Running,
\* Running-Completed, Running-Failed, Completed-Pending, Failed-Pending.
C6_EdgesAsStated ==
    [][PhaseEdges({ << "Pending", "Running" >>, << "Running", "Completed" >>,
                    << "Running", "Failed" >>, << "Completed", "Pending" >>,
                    << "Failed", "Pending" >> })]_vars

\* C6 amended: the phase changes only along Pending-Running, Pending-Failed,
\* Running-Completed, Completed-Pending, Failed-Pending (the campaign fails
\* from Pending, when the selector finds no node, and never from Running).
C6_EdgesOfTheCode ==
    [][PhaseEdges({ << "Pending", "Running" >>, << "Pending", "Failed" >>,
                    << "Running", "Completed" >>, << "Completed", "Pending" >>,
                    << "Failed", "Pending" >> })]_vars

\* A campaign that went from Pending to Failed at a later hour, with no node
\* ever in its batch.
C6_Witness ==
    \E c \in Campaigns :
        /\ status[c].phase = "Failed"
        /\ now > 0 /\ status[c].completionTime = now
        /\ status[c].currentNodes = << >>

\* C10: when the selector resolves to no node in the pass of a Pending
\* campaign, the status that pass writes has phase Failed and a
\* completionTime: the campaign goes from Pending to Failed in one write.
C10_EmptySelectorFails ==
    [][\A c \in Campaigns : \A findOk \in BOOLEAN :
          ( /\ ReconcileStepOf(c)
            /\ status[c].phase = "Pending"
            /\ FindNodesBySelector(findOk) = << >>
            /\ StartRefreshOperation(c, TRUE, findOk) )
          => ( /\ status'[c].phase = "Failed"
               /\ status'[c].completionTime = now )]_vars

\* A campaign that failed on its first pass: it has never been Running.
C10_Witness ==
    \E c \in Campaigns :
        /\ status[c].phase = "Failed"
        /\ status[c].completionTime # Nil
        /\ status[c].startTime = Nil
\* C3: with every API call answered, every node refresh returning and a
\* fixed, non-empty set of labelled nodes, a Pending campaign eventually is
\* Completed.
C3_EventuallyCompleted ==
    \A c \in {"a"} :
        (status[c].phase = "Pending") ~> (status[c].phase = "Completed")

\* The passes a campaign needs, by the claim, to refresh every labelled node
\* one at a time.
AllSucceededSoFar(c) ==
    /\ status[c].phase \in {"Running", "Completed"}
    /\ status[c].failedNodes = << >>

\* C4: with N labelled nodes, maxConcurrentNodes = 1 and every refresh
\* succeeding, a campaign that entered Running is Completed after exactly N
\* Running passes (not before), and processedNodes then holds the N nodes,
\* each once.
C4_ExactlyNPasses ==
    \A c \in Range(items) :
        (cspec[c].maxConcurrentNodes = 1 /\ AllSucceededSoFar(c))
        => IF runPasses[c] < Cardinality(targets)
           THEN status[c].phase = "Running"
           ELSE /\ status[c].phase = "Completed"
                /\ runPasses[c] = Cardinality(targets)
                /\ Len(status[c].processedNodes) = Cardinality(targets)
                /\ Range(status[c].processedNodes) = targets

\* C5: three labelled nodes, maxConcurrentNodes = 2, every refresh
\* succeeding: the start leaves currentNodes = [1, 2]; the first Running pass
\* leaves processedNodes = [1, 2] and currentNodes = [3] (the batch refilled
\* from the backlog); the second leaves processedNodes = [1, 2, 3] and phase
\* Completed.
C5_RollingExample ==
    \A c \in Range(items) :
        ( /\ cspec[c].maxConcurrentNodes = 2
          /\ targets = {1, 2, 3}
          /\ AllSucceededSoFar(c) )
        => /\ runPasses[c] = 0 =>
                /\ status[c].currentNodes = << 1, 2 >>
                /\ status[c].processedNodes = << >>
           /\ runPasses[c] = 1 =>
                /\ status[c].processedNodes = << 1, 2 >>
                /\ status[c].currentNodes = << 3 >>
                /\ status[c].phase = "Running"
           /\ runPasses[c] >= 2 =>
                /\ status[c].processedNodes = << 1, 2, 3 >>
                /\ status[c].currentNodes = << >>
                /\ status[c].phase = "Completed"
\* C7: the evictions of a node refresh never leave the budget with fewer
\* healthy pods than its minAvailable, nor with more unavailable pods than its
\* maxUnavailable.
C7_BudgetKept ==
    /\ pdb.minAvailable # Nil => pdb.currentHealthy >= pdb.minAvailable
    /\ pdb.maxUnavailable # Nil =>
           pdb.desiredHealthy - pdb.currentHealthy <= pdb.maxUnavailable

\* C8: when a pass of reconcile_all is over, reconcile has been called on
\* every campaign the pass listed.
C8_EveryListedReconciled ==
    pending = << >> => visited = Range(listed)

\* C9: no refresh of a batch node raises to _continue_refresh_operation, and
\* whatever the refreshes answer, the batch loop ends with every batch node
\* in processedNodes or in failedNodes (with reason and timestamp).
C9_RefreshNeverRaises ==
    \A c \in Range(items) :
        status[c].phase = "Running" =>
            \A b \in RefreshBatch(Cluster, cspec[c], status[c].currentNodes, 1,
                                  status[c].currentNodes, status[c].processedNodes,
                                  status[c].failedNodes, << >>) :
                /\ ~b.raised
                /\ \A n \in Range(status[c].currentNodes) :
                       \/ n \in Range(b.proc)
                       \/ \E i \in DOMAIN b.failed :
                              /\ b.failed[i].nodeName = n
                              /\ b.failed[i].reason = "Node refresh failed"
                              /\ b.failed[i].timestamp = now
\* The calls of kind k in a call log, and the failed migrations among its
\* first j entries.
HasCall(calls, k) == \E i \in DOMAIN calls : calls[i][1] = k

FailuresUpTo(calls, j) ==
    Cardinality({ i \in 1 .. j : calls[i][1] = "migrationFailed" })

\* The batch loop of a Running campaign, from the cluster as it is.
BatchResults(c) ==
    RefreshBatch(Cluster, cspec[c], status[c].currentNodes, 1,
                 status[c].currentNodes, status[c].processedNodes,
                 status[c].failedNodes, << >>)

\* C11: when a pod migration fails and the failed migrations of the node then
\* exceed (pods on the node - minHealthyPods), the refresh stops at that pod
\* (only the rollback follows), the drain of the node is not invoked, the
\* refresh answers failure, and the batch loop records the node in
\* failedNodes and not in processedNodes.
C11_FailureThresholdStops ==
    \A c \in Range(items) :
        /\ \A n \in Nodes : \A r \in RefreshNode(Cluster, n, cspec[c]) :
               \A j \in DOMAIN r.calls :
                   ( /\ r.calls[j][1] = "migrationFailed"
                     /\ FailuresUpTo(r.calls, j)
                            > Len(podsOn[n]) - cspec[c].minHealthyPods )
                   => /\ Len(r.calls) = j + 1
                      /\ r.calls[j + 1] = << "rollback", n >>
                      /\ ~HasCall(r.calls, "drain")
                      /\ ~r.ok /\ ~r.raised
        /\ status[c].phase = "Running" =>
               \A b \in BatchResults(c) : \A n \in Range(status[c].currentNodes) :
                   << "rollback", n >> \in Range(b.calls)
                   => /\ n \in FailedNames(b.failed)
                      /\ n \notin Range(b.proc)
                      /\ << "drain", n >> \notin Range(b.calls)

\* A node that failed with minHealthyPods = 2 and one of its two pods already
\* gone: the first failed migration passed the threshold of 0 and ended the
\* refresh (a drain needs two successful migrations, which leave no pod).
C11_Witness ==
    \E c \in Range(items) : \E n \in Nodes :
        /\ cspec[c].minHealthyPods = 2
        /\ n \in FailedNames(status[c].failedNodes)
        /\ Len(podsOn[n]) = 1
        /\ \E other \in Nodes : Len(podsOn[other]) = 2
\* C12: a pass over a Failed campaign whose completionTime is set resets it to
\* Pending when now >= completionTime + 1 hour, and leaves the status as it
\* is when now is earlier.
C12_RetryAfterOneHour ==
    [][\A c \in Campaigns :
          ( /\ ReconcileStepOf(c)
            /\ status[c].phase = "Failed"
            /\ status[c].completionTime # Nil )
          => IF now >= status[c].completionTime + RetryHours
             THEN status'[c].phase = "Pending"
             ELSE status'[c] = status[c]]_vars
\* The instant from which the schedule of campaign c asks for a new cycle.
NextRefresh(c) == status[c].completionTime + cspec[c].intervalDays * HoursPerDay

\* C13: a pass over a Completed campaign with schedule.enabled and a
\* completionTime leaves the status as it is when now < completionTime +
\* intervalDays days, and resets the campaign to Pending when now is at or
\* after that instant.
C13_RestartAfterInterval ==
    [][\A c \in Campaigns :
          ( /\ ReconcileStepOf(c)
            /\ status[c].phase = "Completed"
            /\ cspec[c].scheduleEnabled
            /\ status[c].completionTime # Nil )
          => IF now < NextRefresh(c)
             THEN status'[c] = status[c]
             ELSE status'[c].phase = "Pending"]_vars

\* C14: the pass that finds the schedule of a Completed campaign due leaves
\* the status with phase Pending, empty currentNodes, processedNodes and
\* failedNodes, no completionTime, and startTime the time of the pass.
C14_RestartClearsProgress ==
    [][\A c \in Campaigns :
          ( /\ ReconcileStepOf(c)
            /\ status[c].phase = "Completed"
            /\ cspec[c].scheduleEnabled
            /\ status[c].completionTime # Nil
            /\ now >= NextRefresh(c) )
          => /\ status'[c].currentNodes = << >>
             /\ status'[c].processedNodes = << >>
             /\ status'[c].failedNodes = << >>
             /\ status'[c].completionTime = Nil
             /\ status'[c].startTime = now]_vars

\* C15: a pass over a Completed campaign with schedule.enabled = false writes
\* no status, touches no node, pod or budget, and lets reconcile_all go on
\* with its listing.
C15_CompletedUnscheduledIdle ==
    [][\A c \in Campaigns :
          ( /\ ReconcileStepOf(c)
            /\ status[c].phase = "Completed"
            /\ ~cspec[c].scheduleEnabled )
          => /\ status' = status
             /\ UNCHANGED << unschedulable, podsOn, pdb >>
             /\ pending' = Tail(pending)]_vars

\* A campaign without a schedule, Completed at an earlier hour, that a later
\* pass has listed and reconciles next.
C15_Witness ==
    \E c \in Campaigns :
        /\ status[c].phase = "Completed"
        /\ ~cspec[c].scheduleEnabled
        /\ status[c].processedNodes # << >>
        /\ now > status[c].completionTime
        /\ pending # << >> /\ Head(pending) = c
C17_CompletedOnlyWhenAllDone ==
    [][\A c \in Campaigns :
          ( ReconcileStepOf(c) /\ status[c].phase = "Running" )
          => /\ status'[c].phase \in {"Running", "Completed"}
             /\ status'[c].phase = "Completed" =>
                    /\ status'[c].completionTime = now
                    /\ status'[c].currentNodes = << >>
                    /\ targets \subseteq Range(status'[c].processedNodes)
                                   \cup FailedNames(status'[c].failedNodes)]_vars
\* The kinds of call that touch the node or its pods, and the log entries of
\* a gate that did not pass.
TouchingCalls == {"cordon", "evict", "wait", "drain"}

FailedGates == {"readyFailed", "pdbFailed", "provisionFailed"}

\* C18: in every refresh of a node, a cordon, eviction or drain comes after
\* the readiness gate, the budget precheck and the provisioning have passed,
\* in that order; a gate that fails is the last step of the call, which
\* answers failure; and when the budget refuses any pod of the node, no pod
\* of the node is touched.
C18_GatesBeforeTouching ==
    \A c \in Range(items) : \A n \in Nodes :
        \A r \in RefreshNode(Cluster, n, cspec[c]) :
            /\ \A j \in DOMAIN r.calls :
                   /\ r.calls[j][1] \in TouchingCalls =>
                          /\ j > 4
                          /\ r.calls[1] = << "ready", n >>
                          /\ r.calls[3] = << "pdb", n >>
                          /\ r.calls[4] = << "provision", n >>
                   /\ r.calls[j][1] \in FailedGates =>
                          j = Len(r.calls) /\ ~r.ok /\ ~r.raised
            /\ (\E i \in DOMAIN podsOn[n] : ~PdbAllowsPod(Cluster, podsOn[n][i]))
                   => /\ \A j \in DOMAIN r.calls : r.calls[j][1] \notin TouchingCalls
                      /\ r.cl = Cluster

\* The last node of a batch of two failed with every pod still bound and
\* without a cordon, under a budget that refuses its pods: its refresh
\* stopped at a gate.
C18_Witness ==
    \E c \in Range(items) :
        /\ Len(status[c].failedNodes) = 2
        /\ LET n == status[c].failedNodes[2].nodeName
           IN  /\ ~unschedulable[n]
               /\ Len(podsOn[n]) = MaxPodsPerNode
               /\ \E i \in DOMAIN podsOn[n] : ~PdbAllowsPod(Cluster, podsOn[n][i])
MigratedUpTo(calls, j) ==
    Cardinality({ i \in 1 .. j : calls[i][1] = "migrated" })

\* C20: in every refresh of a node, the drain is called only after at least
\* minHealthyPods successful migrations; a refresh that found pods on the
\* node answers success only if the drain answered success (the node is then
\* cordoned and no pod is bound to it); and a drain that fails makes the
\* refresh fail, whatever the migrations did.
C20_DrainGate ==
    \A c \in Range(items) : \A n \in Nodes :
        \A r \in RefreshNode(Cluster, n, cspec[c]) :
            /\ \A j \in DOMAIN r.calls :
                   r.calls[j] = << "drain", n >>
                   => MigratedUpTo(r.calls, j) >= cspec[c].minHealthyPods
            /\ (r.ok /\ Len(r.calls) > 2)
                   => /\ r.calls[Len(r.calls)] = << "drained", n >>
                      /\ r.cl.unsched[n]
                      /\ r.cl.pods[n] = << >>
            /\ HasCall(r.calls, "drainFailed") => ~r.ok

\* A node that failed with maxPodsToMove = 1 although its one migration
\* succeeded (a pod has left it and every budgeted pod is healthy): the drain
\* found the other pod still bound and failed.
C20_Witness ==
    \E c \in Range(items) : \E n \in Nodes :
        /\ cspec[c].maxPodsToMove = 1
        /\ n \in FailedNames(status[c].failedNodes)
        /\ unschedulable[n]
        /\ Len(podsOn[n]) = MaxPodsPerNode - 1
        /\ Len(podsOn[n]) > 0
        /\ pdb.currentHealthy = NumNodes * MaxPodsPerNode
\* The entries of the given kind in a call log, in order.
CallsOfKind(calls, k) == SelectSeq(calls, LAMBDA e : e[1] = k)

\* C21: in every refresh of a node, the evictions attempted are at most
\* maxPodsToMove, and the i-th of them is of the i-th pod of the node's
\* inventory: the pods beyond the cap are not evicted by the call.
C21_EvictionCap ==
    \A c \in Range(items) : \A n \in Nodes :
        \A r \in RefreshNode(Cluster, n, cspec[c]) :
            LET evictions == CallsOfKind(r.calls, "evict")
            IN  /\ Len(evictions) <= cspec[c].maxPodsToMove
                /\ Len(evictions) <= Len(podsOn[n])
                /\ \A i \in DOMAIN evictions :
                       evictions[i][2] = podsOn[n][i].name

\* With maxPodsToMove = 1, a node whose first pod has been evicted and whose
\* second pod is still bound to it.
C21_Witness ==
    \E c \in Range(items) : \E n \in Nodes :
        /\ cspec[c].maxPodsToMove = 1
        /\ podsOn[n] = << Pod(n, 2, "web") >>
        /\ n \in Range(status[c].processedNodes) \cup FailedNames(status[c].failedNodes)
\* C22: in every refresh of a node, each eviction comes right after a cordon
\* call on the node, each readiness wait right after the eviction of the same
\* pod, a migration is counted successful only after such a wait, and a pod
\* has left the node only if the node is cordoned.
C22_CordonEvictWait ==
    \A c \in Range(items) : \A n \in Nodes :
        \A r \in RefreshNode(Cluster, n, cspec[c]) :
            /\ \A j \in DOMAIN r.calls :
                   /\ r.calls[j][1] = "evict" =>
                          j > 1 /\ r.calls[j - 1] = << "cordon", n >>
                   /\ r.calls[j][1] = "wait" =>
                          j > 1 /\ r.calls[j - 1] = << "evict", r.calls[j][2] >>
                   /\ r.calls[j][1] = "migrated" =>
                          j > 1 /\ r.calls[j - 1] = << "wait", r.calls[j][2] >>
            /\ Len(r.cl.pods[n]) < Len(podsOn[n]) => r.cl.unsched[n]
\* C23: the readiness wait answers True only on a pod observed Running and
\* Ready, answers False on a pod observed Failed, goes on polling within the
\* timeout while the pod is not found or not yet ready, and has answered
\* False once the timeout has elapsed without either observation.
C23_WaitOutcomes ==
    /\ wait.result = "True" => wait.last = "runningReady"
    /\ wait.last = "failed" => wait.result = "False"
    /\ ( /\ wait.last \in {"notFound", "pending", "runningNotReady",
                            "runningNoCondition"}
         /\ wait.elapsed < wait.timeout ) => wait.result = "polling"
    /\ wait.result = "polling" => wait.elapsed <= wait.timeout
\* C24: a step changes the persisted status of a campaign only as the status
\* write that ends the reconcile of that campaign: the reconcile returns
\* normally, no other campaign's status changes, and in a Running pass the
\* node work of the whole batch is done and the status written is the one
\* computed from it.  A process stopped before the write leaves every status
\* as it was.
C24_StatusOnlyByFinalWrite ==
    [][\A c \in Campaigns : status'[c] # status[c] =>
          /\ pending # << >>
          /\ Head(pending) = c
          /\ pending' = Tail(pending)
          /\ visited' = visited \cup {c}
          /\ \A d \in Campaigns \ {c} : status'[d] = status[d]
          /\ status[c].phase # "Running" =>
                UNCHANGED << unschedulable, podsOn, pdb >>
          /\ status[c].phase = "Running" =>
                \E b \in BatchResults(c) :
                    /\ ~b.raised
                    /\ unschedulable' = b.cl.unsched
                    /\ podsOn' = b.cl.pods
                    /\ \E findOk \in BOOLEAN :
                         status'[c] = UpdateStatus(status[c],
                             ContinueUpdates(cspec[c], b, FindNodesBySelector(findOk)),
                             TRUE)]_vars

\* A process was stopped in a Running pass after node work: a batch node is
\* cordoned, the status still has it in currentNodes, and no listing is held.
C24_Witness ==
    /\ listed = << >>
    /\ pending = << >>
    /\ \E c \in Range(items) :
         /\ status[c].phase = "Running"
         /\ \E n \in Range(status[c].currentNodes) : unschedulable[n]
\* The nodes on which a refresh was entered, in the order of the calls: each
\* _refresh_node starts with the readiness gate.
AttemptedNodes(calls) ==
    LET gates == SelectSeq(calls, LAMBDA e : e[1] \in {"ready", "readyFailed"})
    IN  [i \in DOMAIN gates |-> gates[i][2]]

Backlog(c, t) ==
    t \ (Range(status[c].processedNodes) \cup FailedNames(status[c].failedNodes))

\* C26: a Running campaign with empty currentNodes and a backlog stays as it
\* is: as long as the labelled nodes still hold a node of the backlog, a step
\* leaves its phase, currentNodes, processedNodes and failedNodes unchanged,
\* and its pass enters no node refresh.
C26_StuckStaysStuck ==
    [][\A c \in Campaigns :
          ( /\ status[c].phase = "Running"
            /\ status[c].currentNodes = << >>
            /\ Backlog(c, targets) # {}
            /\ Backlog(c, targets') # {} ) =>
             /\ status'[c].phase = status[c].phase
             /\ status'[c].currentNodes = status[c].currentNodes
             /\ status'[c].processedNodes = status[c].processedNodes
             /\ status'[c].failedNodes = status[c].failedNodes
             /\ \A b \in BatchResults(c) : b.calls = << >>]_vars
\* The success condition of one refresh r of node n under spec sp, read from
\* its log: the gate passed, and the call ended at an empty inventory or went
\* through budget, provisioning, migrations and drain.
SuccessCondition(r, n, sp) ==
    /\ HasCall(r.calls, "ready")
    /\ \/ r.calls = << <<"ready", n>>, <<"list", n>> >>
       \/ /\ HasCall(r.calls, "pdb")
          /\ HasCall(r.calls, "provision")
          /\ FailuresUpTo(r.calls, Len(r.calls)) <= Len(podsOn[n]) - sp.minHealthyPods
          /\ MigratedUpTo(r.calls, Len(r.calls)) >= sp.minHealthyPods
          /\ Len(CallsOfKind(r.calls, "evict")) <= Min(Len(podsOn[n]), sp.maxPodsToMove)
          /\ HasCall(r.calls, "drained")

C28_CordonIsForever ==
    [][\A n \in Nodes : unschedulable[n] =>
          /\ unschedulable'[n]
          /\ \A c \in Range(items) :
                \A r \in RefreshNode(Cluster, n, cspec[c]) :
                    /\ ~r.raised
                    /\ ~r.ok
                    /\ r.calls = << <<"readyFailed", n>> >>
                    /\ r.cl = Cluster]_vars

\* A node whose refresh went through migration and drain without its status
\* being written was entered again, and is recorded failed: it is cordoned
\* and empty, on a cluster whose nodes ran two pods each.
C28_Witness ==
    \E c \in Range(items) : \E n \in FailedNames(status[c].failedNodes) :
        /\ unschedulable[n]
        /\ podsOn[n] = << >>
        /\ \E other \in Nodes : Len(podsOn[other]) = 2
\* C29: a refresh answers success only after a successful drain or at an
\* empty pod listing; a pod listing that fails is an empty inventory, so the
\* refresh of a ready, schedulable node can end there with success and an
\* untouched cluster whatever pods the node runs; and a node that a step adds
\* to processedNodes is either cordoned and empty or as it was.
C29_ProcessedMeansDrainedOrEmpty ==
    [][\A c \in Range(items) : \A n \in Nodes :
          /\ \A r \in RefreshNode(Cluster, n, cspec[c]) :
                r.ok => \/ HasCall(r.calls, "drained")
                        \/ r.calls = << <<"ready", n>>, <<"list", n>> >>
          /\ GetPodsOnNode(Cluster, n, FALSE) = << >>
          /\ ~unschedulable[n] =>
                \E r \in RefreshNode(Cluster, n, cspec[c]) :
                    /\ r.ok
                    /\ r.calls = << <<"ready", n>>, <<"list", n>> >>
                    /\ r.cl = Cluster
          /\ ( /\ n \in Range(status'[c].processedNodes)
               /\ n \notin Range(status[c].processedNodes) ) =>
                \/ unschedulable'[n] /\ podsOn'[n] = << >>
                \/ unschedulable'[n] = unschedulable[n] /\ podsOn'[n] = podsOn[n]]_vars

\* A node that runs pods and was never cordoned is recorded as processed.
C29_Witness ==
    \E c \in Range(items) : \E n \in Range(status[c].processedNodes) :
        /\ ~unschedulable[n]
        /\ podsOn[n] # << >>
\* C30: a status write that fails writes nothing; the pass of a Running
\* campaign over a non-empty batch whose write failed returns normally to
\* reconcile_all with the status exactly as it was, the cluster is left as
\* the node work of the whole batch made it (no cordon is lifted, no pod is
\* back), and the next pass finds the same currentNodes.
C30_FailedWriteKeepsStatus ==
    [][\A c \in Campaigns :
          (ReconcileStepOf(c) /\ status[c].phase = "Running"
             /\ status[c].currentNodes # << >>) =>
             /\ \A b \in BatchResults(c) : \A findOk \in BOOLEAN :
                   UpdateStatus(status[c],
                       ContinueUpdates(cspec[c], b, FindNodesBySelector(findOk)),
                       FALSE) = status[c]
             /\ status'[c] = status[c] =>
                   /\ pending' = Tail(pending)
                   /\ \E b \in BatchResults(c) :
                         /\ ~b.raised
                         /\ unschedulable' = b.cl.unsched
                         /\ podsOn' = b.cl.pods
                   /\ \A n \in Nodes :
                         /\ unschedulable[n] => unschedulable'[n]
                         /\ Len(podsOn'[n]) <= Len(podsOn[n])
                   /\ status'[c].currentNodes = status[c].currentNodes]_vars

\* The pass of a Running campaign has returned after node work, with a batch
\* node cordoned and the status still holding it in currentNodes.
C30_Witness ==
    /\ pending = << >>
    /\ \E c \in Range(items) :
         /\ c \in visited
         /\ status[c].phase = "Running"
         /\ \E n \in Range(status[c].currentNodes) :
              unschedulable[n] /\ Len(podsOn[n]) < MaxPodsPerNode
====
